---- MODULE Spec2Model ----
(***************************************************************************)
(* WaveRider 3-Stop trading journal (waveriderai/trade_risk_manager).      *)
(*                                                                         *)
(* The model covers the calculation engine (update_all_calculations and    *)
(* the calculators it runs) and the persistence-side handlers that invoke  *)
(* it (create_trade, create_transaction, transaction update and delete,    *)
(* market-data refresh, trade update and delete, migrate_existing_trades). *)
(*                                                                         *)
(* Numbers are exact rationals <<n, d>> in lowest terms with d > 0; the     *)
(* rounding of the NUMERIC columns is not modelled.  <<1, 0>> stands for   *)
(* the outcome of a division by zero (decimal.DivisionByZero).  An unknown *)
(* value (Python None, SQL NULL) is the empty tuple.                       *)
(*                                                                         *)
(* Two specifications: Spec is the journal (the handlers over the two      *)
(* tables); SpecCalc is the engine alone, applied to a stored trade.       *)
(***************************************************************************)
EXTENDS Integers, Sequences, FiniteSets, TLC

VARIABLES
    trades,        \* table trades: trade_id -> row
    transactions,  \* table transactions: set of rows
    nextId,        \* SERIAL sequence of transactions.id
    today,         \* date.today(), as a day number (day 0 is a Monday)
    response,      \* the last handler's call and HTTP outcome
    calc,          \* the engine under test: one orchestrator invocation
    sessions,      \* database sessions of requests being processed concurrently
    ui             \* the frontend: formatter call, transaction form, Entries page

vars == <<trades, transactions, nextId, today, response, calc, sessions, ui>>

----------------------------------------------------------------------------
(* Bounds of the model.                                                    *)

MaxShares == 2
MaxTxnId == 2
MaxDay == 1
MaxRuns == 2

\* Submissions of the add-transaction form in one visit of the page.
MaxSubmits == 2

\* Trade-list requests sent in one visit of the Entries page.
MaxRequests == 3

----------------------------------------------------------------------------
(* Optional exact numbers.                                                 *)

None == << >>

ZeroDiv == <<1, 0>>

Abs(x) == IF x < 0 THEN -x ELSE x

RECURSIVE GCD(_, _)
GCD(a, b) == IF b = 0 THEN a ELSE GCD(b, a % b)

Norm(n, d) ==
    IF d = 0 THEN ZeroDiv
    ELSE LET s == IF d < 0 THEN -1 ELSE 1
             g == GCD(Abs(n), Abs(d))
         IN  <<(s * n) \div g, (s * d) \div g>>

Num(i) == <<i, 1>>

IsErr(q) == q[2] = 0

QAdd(a, b) == IF IsErr(a) \/ IsErr(b) THEN ZeroDiv
              ELSE Norm(a[1] * b[2] + b[1] * a[2], a[2] * b[2])

QSub(a, b) == IF IsErr(a) \/ IsErr(b) THEN ZeroDiv
              ELSE Norm(a[1] * b[2] - b[1] * a[2], a[2] * b[2])

QMul(a, b) == IF IsErr(a) \/ IsErr(b) THEN ZeroDiv
              ELSE Norm(a[1] * b[1], a[2] * b[2])

QDiv(a, b) == IF IsErr(a) \/ IsErr(b) THEN ZeroDiv
              ELSE Norm(a[1] * b[2], a[2] * b[1])

QLeZero(a) == a[1] <= 0

\* Python truthiness of an Optional[Decimal]: None and 0 are false.
Truthy(x) == x # None /\ x[1] # 0

IsKnown(x) == x # None /\ ~IsErr(x)

\* The element of a one-element set.
Only(S) == CHOOSE x \in S : TRUE

----------------------------------------------------------------------------
(* Configuration (app/core/config.py).                                     *)

STOP3_BUFFER_PCT == <<1, 200>>


----------------------------------------------------------------------------
(* NULL propagation: a formula with an unknown operand is unknown.         *)

OAdd(a, b) == IF a = None \/ b = None THEN None ELSE QAdd(a, b)

OSub(a, b) == IF a = None \/ b = None THEN None ELSE QSub(a, b)

OMul(a, b) == IF a = None \/ b = None THEN None ELSE QMul(a, b)

ODiv(a, b) == IF a = None \/ b = None THEN None ELSE QDiv(a, b)

----------------------------------------------------------------------------
(* Transactions of one trade, and sums over them.                          *)

\* Mutant: the fee is not taken off the proceeds of a transaction.
calculate_transaction_proceeds_gross(shares, price, fees) ==
    QMul(Num(shares), price)

calculate_transaction_proceeds(shares, price, fees) ==
    QSub(QMul(Num(shares), price), fees)

TxnsOf(txs, trade_id) == {x \in txs : x.trade_id = trade_id}

RECURSIVE SumShares(_)
SumShares(txs) ==
    IF txs = {} THEN 0
    ELSE LET x == CHOOSE y \in txs : TRUE
         IN  x.shares + SumShares(txs \ {x})

RECURSIVE SumProceeds(_)
SumProceeds(txs) ==
    IF txs = {} THEN Num(0)
    ELSE LET x == CHOOSE y \in txs : TRUE
         IN  QAdd(x.proceeds, SumProceeds(txs \ {x}))

RECURSIVE SumFees(_)
SumFees(txs) ==
    IF txs = {} THEN Num(0)
    ELSE LET x == CHOOSE y \in txs : TRUE
         IN  QAdd(x.fees, SumFees(txs \ {x}))

RECURSIVE SumSharesTimesPrice(_)
SumSharesTimesPrice(txs) ==
    IF txs = {} THEN Num(0)
    ELSE LET x == CHOOSE y \in txs : TRUE
         IN  QAdd(QMul(Num(x.shares), x.price), SumSharesTimesPrice(txs \ {x}))

----------------------------------------------------------------------------
(* 1. Transaction rollups, PnL and status.                                 *)

shares_remaining_of(shares, shares_exited) == shares - shares_exited

\* Mutant: the average exit price is the net proceeds per exited share.
avg_exit_price_of_net_proceeds(txs, shares_exited) ==
    IF shares_exited > 0
    THEN QDiv(SumProceeds(txs), Num(shares_exited))
    ELSE None

avg_exit_price_of(txs, shares_exited) ==
    IF shares_exited > 0
    THEN QDiv(SumSharesTimesPrice(txs), Num(shares_exited))
    ELSE None

\* Mutant: the rollup leaves the stored shares_remaining as it was.
calculate_exit_metrics_stale_remaining(t, txs) ==
    LET mine == TxnsOf(txs, t.trade_id)
        exited == SumShares(mine)
    IN  [t EXCEPT !.shares_exited = exited,
                  !.total_proceeds = SumProceeds(mine),
                  !.total_fees = SumFees(mine),
                  !.avg_exit_price = avg_exit_price_of(mine, exited)]

calculate_exit_metrics(t, txs) ==
    LET mine == TxnsOf(txs, t.trade_id)
        exited == SumShares(mine)
    IN  [t EXCEPT !.shares_exited = exited,
                  !.shares_remaining = shares_remaining_of(t.shares, exited),
                  !.total_proceeds = SumProceeds(mine),
                  !.total_fees = SumFees(mine),
                  !.avg_exit_price = avg_exit_price_of(mine, exited)]

\* Mutant: the cost of the exited shares is not taken off the proceeds.
realized_pnl_of_no_cost_basis(total_proceeds, shares_exited, purchase_price) ==
    total_proceeds

realized_pnl_of(total_proceeds, shares_exited, purchase_price) ==
    QSub(total_proceeds, QMul(Num(shares_exited), purchase_price))

\* Mutant: without a current price the unrealized PnL is reported as 0.
unrealized_pnl_of_zero_without_price(shares_remaining, current_price, purchase_price) ==
    IF shares_remaining > 0 /\ current_price # None
    THEN QMul(Num(shares_remaining), QSub(current_price, purchase_price))
    ELSE Num(0)

\* Mutant: the product is taken even when no shares remain.
unrealized_pnl_of_unguarded(shares_remaining, current_price, purchase_price) ==
    OMul(Num(shares_remaining), OSub(current_price, purchase_price))

unrealized_pnl_of(shares_remaining, current_price, purchase_price) ==
    IF shares_remaining > 0
    THEN OMul(Num(shares_remaining), OSub(current_price, purchase_price))
    ELSE Num(0)

calculate_pnl(t) ==
    LET realized == realized_pnl_of(t.total_proceeds, t.shares_exited, t.purchase_price)
        unrealized == unrealized_pnl_of(t.shares_remaining, t.current_price,
                                        t.purchase_price)
    IN  [t EXCEPT !.realized_pnl = realized,
                  !.unrealized_pnl = unrealized,
                  !.total_pnl = OAdd(realized, unrealized)]

\* Mutant: the PARTIAL branch is missing.
calculate_status_two_state(shares, shares_remaining) ==
    IF shares_remaining = 0 THEN "CLOSED" ELSE "OPEN"

calculate_status(shares, shares_remaining) ==
    IF shares_remaining = shares THEN "OPEN"
    ELSE IF shares_remaining = 0 THEN "CLOSED"
    ELSE "PARTIAL"

calculate_trade_rollups(t, txs) ==
    Only({[t2 EXCEPT !.status = calculate_status(t2.shares, t2.shares_remaining)] :
            t2 \in {calculate_pnl(t1) : t1 \in {calculate_exit_metrics(t, txs)}}})

----------------------------------------------------------------------------
(* 2. Stops and targets.                                                   *)

\* Mutant: the override is tested for truth, so an override of 0 counts as
\* absent.
stop_3_of_truthy_override(stop_override, entry_day_low, buffer_pct) ==
    IF Truthy(stop_override) THEN stop_override
    ELSE IF entry_day_low # None
         THEN QMul(entry_day_low, QSub(Num(1), buffer_pct))
         ELSE None

stop_3_of(stop_override, entry_day_low, buffer_pct) ==
    IF stop_override # None THEN stop_override
    ELSE IF entry_day_low # None
         THEN QMul(entry_day_low, QSub(Num(1), buffer_pct))
         ELSE None

one_r_of(purchase_price, stop_3) == OSub(purchase_price, stop_3)

\* Mutant: Stop2 is placed one third of the risk unit below the entry.
stop_2_of_one_third(purchase_price, distance_to_stop3) ==
    OSub(purchase_price, OMul(<<1, 3>>, distance_to_stop3))

stop_2_of(purchase_price, distance_to_stop3) ==
    OSub(purchase_price, OMul(<<2, 3>>, distance_to_stop3))

stop_1_of(purchase_price, distance_to_stop3) ==
    OSub(purchase_price, OMul(<<1, 3>>, distance_to_stop3))

entry_pct_above_stop3_of(purchase_price, stop_3) ==
    IF Truthy(stop_3)
    THEN QMul(QDiv(QSub(purchase_price, stop_3), stop_3), Num(100))
    ELSE None

tp_of(purchase_price, k, one_r) == OAdd(purchase_price, OMul(Num(k), one_r))

calculate_stops_and_targets(t) ==
    LET stop_3 == stop_3_of(t.stop_override, t.entry_day_low, STOP3_BUFFER_PCT)
        one_r == one_r_of(t.purchase_price, stop_3)
    IN  [t EXCEPT !.stop_3 = stop_3,
                  !.one_r = one_r,
                  !.stop_2 = stop_2_of(t.purchase_price, one_r),
                  !.stop_1 = stop_1_of(t.purchase_price, one_r),
                  !.entry_pct_above_stop3 =
                      entry_pct_above_stop3_of(t.purchase_price, stop_3),
                  !.tp_1r = tp_of(t.purchase_price, 1, one_r),
                  !.tp_2r = tp_of(t.purchase_price, 2, one_r),
                  !.tp_3r = tp_of(t.purchase_price, 3, one_r)]

----------------------------------------------------------------------------
(* 3. Price metrics (reads this run's status and avg_exit_price).          *)

day_pct_moved_of(current_price, entry_day_low) ==
    IF Truthy(entry_day_low)
    THEN OMul(ODiv(OSub(current_price, entry_day_low), entry_day_low), Num(100))
    ELSE None

cp_pct_diff_from_entry_of(current_price, purchase_price) ==
    ODiv(OSub(current_price, purchase_price), purchase_price)

\* Mutant: the average exit price is used as soon as there is one, closed
\* or not.
sold_price_of_any_exit(status, avg_exit_price, current_price) ==
    IF Truthy(avg_exit_price)
    THEN avg_exit_price
    ELSE current_price

sold_price_of(status, avg_exit_price, current_price) ==
    IF status = "CLOSED" /\ Truthy(avg_exit_price)
    THEN avg_exit_price
    ELSE current_price

pct_gain_loss_trade_of(sold_price, purchase_price) ==
    ODiv(OSub(sold_price, purchase_price), purchase_price)

calculate_price_metrics(t) ==
    LET sold == sold_price_of(t.status, t.avg_exit_price, t.current_price)
    IN  [t EXCEPT !.day_pct_moved = day_pct_moved_of(t.current_price, t.entry_day_low),
                  !.cp_pct_diff_from_entry =
                      cp_pct_diff_from_entry_of(t.current_price, t.purchase_price),
                  !.sold_price = sold,
                  !.pct_gain_loss_trade = pct_gain_loss_trade_of(sold, t.purchase_price)]

----------------------------------------------------------------------------
(* 4. Portfolio metrics (reads this run's pct_gain_loss_trade).            *)

\* Mutant: a missing portfolio size is replaced by the configured default
\* of 300000.
pct_portfolio_invested_at_entry_of_default_size(shares, purchase_price, portfolio_size) ==
    IF portfolio_size = None
    THEN QMul(QDiv(QMul(Num(shares), purchase_price), Num(300000)), Num(100))
    ELSE IF Truthy(portfolio_size)
    THEN QMul(QDiv(QMul(Num(shares), purchase_price), portfolio_size), Num(100))
    ELSE None

pct_portfolio_invested_at_entry_of(shares, purchase_price, portfolio_size) ==
    IF Truthy(portfolio_size)
    THEN QMul(QDiv(QMul(Num(shares), purchase_price), portfolio_size), Num(100))
    ELSE None

pct_portfolio_current_of(shares_remaining, current_price, portfolio_size) ==
    IF Truthy(portfolio_size)
    THEN OMul(ODiv(OMul(Num(shares_remaining), current_price), portfolio_size),
              Num(100))
    ELSE None

\* Mutant: the product of the two figures is divided by 100, as if the
\* gain/loss were a percentage too.
gain_loss_pct_portfolio_impact_of_per_cent(pct_gain_loss_trade, pct_portfolio_invested_at_entry) ==
    IF pct_gain_loss_trade = None \/ pct_portfolio_invested_at_entry = None
    THEN None
    ELSE QDiv(QMul(pct_gain_loss_trade, pct_portfolio_invested_at_entry), Num(100))

gain_loss_pct_portfolio_impact_of(pct_gain_loss_trade, pct_portfolio_invested_at_entry) ==
    IF pct_gain_loss_trade = None \/ pct_portfolio_invested_at_entry = None
    THEN None
    ELSE QMul(pct_gain_loss_trade, pct_portfolio_invested_at_entry)

calculate_portfolio_metrics(t) ==
    LET at_entry == pct_portfolio_invested_at_entry_of(t.shares, t.purchase_price,
                                                       t.portfolio_size)
    IN  [t EXCEPT !.pct_portfolio_invested_at_entry = at_entry,
                  !.pct_portfolio_current =
                      pct_portfolio_current_of(t.shares_remaining, t.current_price,
                                               t.portfolio_size),
                  !.gain_loss_pct_portfolio_impact =
                      gain_loss_pct_portfolio_impact_of(t.pct_gain_loss_trade, at_entry)]

----------------------------------------------------------------------------
(* 5. ATR / SMA metrics (reads this run's one_r).                          *)

\* Mutant: the distance is measured to the buffered floor, as the risk unit
\* is.
risk_atr_pct_above_low_of_buffered_floor(purchase_price, entry_day_low, atr_at_entry) ==
    IF Truthy(atr_at_entry) /\ Truthy(entry_day_low)
    THEN QMul(QDiv(QSub(purchase_price,
                        QMul(entry_day_low, QSub(Num(1), STOP3_BUFFER_PCT))),
                   atr_at_entry), Num(100))
    ELSE None

risk_atr_pct_above_low_of(purchase_price, entry_day_low, atr_at_entry) ==
    IF Truthy(atr_at_entry) /\ Truthy(entry_day_low)
    THEN QMul(QDiv(QSub(purchase_price, entry_day_low), atr_at_entry), Num(100))
    ELSE None

risk_atr_r_units_of(one_r, atr_at_entry) ==
    IF one_r = None \/ atr_at_entry = None \/ QLeZero(atr_at_entry)
    THEN None
    ELSE QDiv(one_r, atr_at_entry)

\* ((price - sma) / sma) / (atr / price)
atr_pct_multiple_formula(price, sma, atr) ==
    LET pct_from_sma == QDiv(QSub(price, sma), sma)
        atr_as_pct_of_price == QDiv(atr, price)
    IN  QDiv(pct_from_sma, atr_as_pct_of_price)

\* Unknown when the moving average, the volatility or the price is absent
\* or zero.
atr_pct_multiple_inputs_ok(price, sma, atr) ==
    Truthy(price) /\ Truthy(sma) /\ Truthy(atr)

atr_pct_multiple_of(price, sma, atr) ==
    IF atr_pct_multiple_inputs_ok(price, sma, atr)
    THEN atr_pct_multiple_formula(price, sma, atr)
    ELSE None

\* Mutant: one guard in front of the whole calculator, so a missing ATR at
\* entry blanks the current-data multiple as well.
calculate_atr_metrics_single_guard(t) ==
    IF t.atr_at_entry = None
    THEN [t EXCEPT !.risk_atr_pct_above_low = None,
                   !.risk_atr_r_units = None,
                   !.atr_pct_multiple_from_ma_at_entry = None,
                   !.atr_pct_multiple_from_ma = None]
    ELSE [t EXCEPT !.risk_atr_pct_above_low =
                       risk_atr_pct_above_low_of(t.purchase_price, t.entry_day_low,
                                                 t.atr_at_entry),
                   !.risk_atr_r_units = risk_atr_r_units_of(t.one_r, t.atr_at_entry),
                   !.atr_pct_multiple_from_ma_at_entry =
                       atr_pct_multiple_of(t.purchase_price, t.sma_at_entry,
                                           t.atr_at_entry),
                   !.atr_pct_multiple_from_ma =
                       atr_pct_multiple_of(t.current_price, t.sma_50, t.atr_14)]

calculate_atr_metrics(t) ==
    [t EXCEPT !.risk_atr_pct_above_low =
                  risk_atr_pct_above_low_of(t.purchase_price, t.entry_day_low,
                                            t.atr_at_entry),
              !.risk_atr_r_units = risk_atr_r_units_of(t.one_r, t.atr_at_entry),
              !.atr_pct_multiple_from_ma_at_entry =
                  atr_pct_multiple_of(t.purchase_price, t.sma_at_entry, t.atr_at_entry),
              !.atr_pct_multiple_from_ma =
                  atr_pct_multiple_of(t.current_price, t.sma_50, t.atr_14)]

----------------------------------------------------------------------------
(* 6. R-Multiple (reads this run's total_pnl and one_r).                   *)

\* Mutant: only a missing risk unit is guarded, not one that is 0 or less.
calculate_r_multiple_no_zero_guard(total_pnl, one_r, shares) ==
    IF one_r = None
    THEN None
    ELSE LET initial_risk == QMul(Num(shares), one_r)
         IN  ODiv(total_pnl, initial_risk)

\* Mutant: the PnL is divided by the risk unit of one share, not by the
\* initial risk of the whole position.
calculate_r_multiple_per_share(total_pnl, one_r, shares) ==
    IF one_r = None \/ QLeZero(one_r)
    THEN None
    ELSE ODiv(total_pnl, one_r)

calculate_r_multiple(total_pnl, one_r, shares) ==
    IF one_r = None \/ QLeZero(one_r)
    THEN None
    ELSE LET initial_risk == QMul(Num(shares), one_r)
         IN  ODiv(total_pnl, initial_risk)

----------------------------------------------------------------------------
(* 7. Trading days open: len(pd.bdate_range(purchase_date, today)).        *)

\* Mutant: Saturday counts as a business day.
IsBusinessDay_six_day_week(d) == d % 7 < 6

IsBusinessDay(d) == d % 7 < 5

calculate_trading_days(purchase_date, ref_date) ==
    Num(Cardinality({d \in purchase_date .. ref_date : IsBusinessDay(d)}))

----------------------------------------------------------------------------
(* The orchestrator.                                                       *)

\* Mutant: the price metrics run before the rollups and read the status and
\* average exit price the previous run stored.
update_all_calculations_price_first(t, txs, ref_date) ==
    Only({[t6 EXCEPT !.trading_days_open =
                         calculate_trading_days(t6.purchase_date, ref_date)] :
          t6 \in {[t5 EXCEPT !.r_multiple =
                       calculate_r_multiple(t5.total_pnl, t5.one_r, t5.shares)] :
          t5 \in {calculate_atr_metrics(t4) :
          t4 \in {calculate_portfolio_metrics(t3) :
          t3 \in {calculate_stops_and_targets(t2) :
          t2 \in {calculate_trade_rollups(t1, txs) :
          t1 \in {calculate_price_metrics(t)}}}}}}})

\* Mutant: the R-multiple is computed right after the rollups, before the
\* stops, and reads the risk unit the previous run stored.
update_all_calculations_r_multiple_early(t, txs, ref_date) ==
    Only({[t6 EXCEPT !.trading_days_open =
                         calculate_trading_days(t6.purchase_date, ref_date)] :
          t6 \in {calculate_atr_metrics(t5) :
          t5 \in {calculate_portfolio_metrics(t4) :
          t4 \in {calculate_price_metrics(t3) :
          t3 \in {calculate_stops_and_targets(t2) :
          t2 \in {[t1 EXCEPT !.r_multiple =
                       calculate_r_multiple(t1.total_pnl, t1.one_r, t1.shares)] :
          t1 \in {calculate_trade_rollups(t, txs)}}}}}}})

update_all_calculations(t, txs, ref_date) ==
    Only({[t6 EXCEPT !.trading_days_open =
                         calculate_trading_days(t6.purchase_date, ref_date)] :
          t6 \in {[t5 EXCEPT !.r_multiple =
                       calculate_r_multiple(t5.total_pnl, t5.one_r, t5.shares)] :
          t5 \in {calculate_atr_metrics(t4) :
          t4 \in {calculate_portfolio_metrics(t3) :
          t3 \in {calculate_price_metrics(t2) :
          t2 \in {calculate_stops_and_targets(t1) :
          t1 \in {calculate_trade_rollups(t, txs)}}}}}}})

DerivedFields ==
    {"shares_exited", "shares_remaining", "total_proceeds", "total_fees",
     "avg_exit_price", "realized_pnl", "unrealized_pnl", "total_pnl", "status",
     "stop_3", "stop_2", "stop_1", "one_r", "entry_pct_above_stop3",
     "tp_1r", "tp_2r", "tp_3r",
     "day_pct_moved", "cp_pct_diff_from_entry", "sold_price", "pct_gain_loss_trade",
     "pct_portfolio_invested_at_entry", "pct_portfolio_current",
     "gain_loss_pct_portfolio_impact",
     "risk_atr_pct_above_low", "risk_atr_r_units",
     "atr_pct_multiple_from_ma_at_entry", "atr_pct_multiple_from_ma",
     "r_multiple", "trading_days_open"}

NumericDerivedFields == DerivedFields \ {"shares_exited", "shares_remaining", "status"}

\* A calculation that divides by zero raises instead of returning.
Raises(t) == \E f \in NumericDerivedFields : t[f] # None /\ IsErr(t[f])

\* Trade(...) as constructed by create_trade, before the first calculation.
NewTrade(trade_id, purchase_date, purchase_price, shares, entry_day_low, stop_override, portfolio_size) ==
    [trade_id |-> trade_id, purchase_date |-> purchase_date,
     purchase_price |-> purchase_price, shares |-> shares,
     entry_day_low |-> entry_day_low, stop_override |-> stop_override,
     portfolio_size |-> portfolio_size,
     current_price |-> None, atr_14 |-> None, sma_50 |-> None, sma_10 |-> None,
     atr_at_entry |-> None, sma_at_entry |-> None,
     shares_exited |-> 0, shares_remaining |-> shares,
     total_proceeds |-> Num(0), total_fees |-> Num(0), avg_exit_price |-> None,
     realized_pnl |-> Num(0), unrealized_pnl |-> Num(0), total_pnl |-> Num(0),
     status |-> "NULL",
     stop_3 |-> None, stop_2 |-> None, stop_1 |-> None, one_r |-> None,
     entry_pct_above_stop3 |-> None,
     tp_1r |-> None, tp_2r |-> None, tp_3r |-> None,
     day_pct_moved |-> None, cp_pct_diff_from_entry |-> None, sold_price |-> None,
     pct_gain_loss_trade |-> None,
     pct_portfolio_invested_at_entry |-> None, pct_portfolio_current |-> None,
     gain_loss_pct_portfolio_impact |-> None,
     risk_atr_pct_above_low |-> None, risk_atr_r_units |-> None,
     atr_pct_multiple_from_ma_at_entry |-> None, atr_pct_multiple_from_ma |-> None,
     r_multiple |-> None, trading_days_open |-> None]

----------------------------------------------------------------------------
(* The database and the market-data provider.                              *)

TradeIds == {"T1"}

PurchaseDates == {0}

PurchasePrices == {Num(100)}

EntryDayLows == {None, Num(95)}

StopOverrides == {None, Num(90)}

PortfolioSizes == {Num(1000)}

TxnPrices == {Num(110)}

TxnFees == {Num(1)}

\* get_complete_market_data(ticker, purchase_date) returns
\* (current_data, entry_snapshot) or raises; single indicators may be NULL.
CurrentData ==
    {[current_price |-> Num(110), atr_14 |-> Num(2), sma_50 |-> Num(100),
      sma_10 |-> Num(105)],
     [current_price |-> Num(90), atr_14 |-> None, sma_50 |-> Num(100),
      sma_10 |-> None]}

EntrySnapshots ==
    {[atr_14 |-> Num(2), sma_50 |-> Num(95)],
     [atr_14 |-> Num(4), sma_50 |-> None]}

FetchOutcomes ==
    {[ok |-> FALSE]} \cup
    {[ok |-> TRUE, current_data |-> c, entry_snapshot |-> e] :
        c \in CurrentData, e \in EntrySnapshots}

WithCurrentData(t, c) ==
    [t EXCEPT !.current_price = c.current_price, !.atr_14 = c.atr_14,
              !.sma_50 = c.sma_50, !.sma_10 = c.sma_10]

WithEntrySnapshot(t, e) ==
    [t EXCEPT !.atr_at_entry = e.atr_14, !.sma_at_entry = e.sma_50]

\* Mutant: the trades table lacks CHECK (shares_remaining >= 0).
TradeRowOk_no_remaining_check(t) ==
    /\ t.shares > 0
    /\ ~QLeZero(t.purchase_price)

\* CHECK constraints of the two tables, evaluated when the session commits.
TradeRowOk(t) ==
    /\ t.shares > 0
    /\ ~QLeZero(t.purchase_price)
    /\ t.shares_remaining >= 0

TransactionRowOk(x) == x.shares > 0 /\ ~QLeZero(x.price)

\* Mutant: the tables carry no CHECK constraints.
CommitOk_unchecked(trs, txs) == TRUE

CommitOk(trs, txs) ==
    /\ \A id \in DOMAIN trs : TradeRowOk(trs[id])
    /\ \A x \in txs : TransactionRowOk(x)

Exists(trade_id) == trade_id \in DOMAIN trades

Put(trs, t) ==
    [id \in DOMAIN trs \cup {t.trade_id} |->
        IF id = t.trade_id THEN t ELSE trs[id]]

Reply(op, code) == [op |-> op, code |-> code]

\* No request is being processed concurrently with another.
NoSessions == << >>

\* The frontend is not under examination.
NoUi == [page |-> "none"]

\* The engine-under-test slot when no isolated invocation is being examined.
IdleCalc ==
    [runs |-> 0, txns |-> {},
     trade |-> NewTrade("T1", 0, Num(100), 1, None, None, None),
     before |-> NewTrade("T1", 0, Num(100), 1, None, None, None)]

----------------------------------------------------------------------------
(* Handlers.  Each is one database session: its effects are committed      *)
(* together or not at all.                                                 *)

\* Ends the session: commit if nothing raised and the CHECK constraints
\* hold, otherwise roll back and answer 500.
Finish(op, okCode, t, trs, txs, id) ==
    IF ~Raises(t) /\ CommitOk(trs, txs)
    THEN /\ trades' = trs
         /\ transactions' = txs
         /\ nextId' = id
         /\ response' = Reply(op, okCode)
    ELSE /\ trades' = trades
         /\ transactions' = transactions
         /\ nextId' = id
         /\ response' = Reply(op, 500)

\* POST /trades
\* Mutant: a failed market-data fetch aborts the creation.
CreateTrade_fetch_failure_aborts(trade_id, purchase_date, purchase_price, shares, entry_day_low, stop_override, portfolio_size, fetched) ==
    /\ UNCHANGED <<today, calc, sessions, ui>>
    /\ IF Exists(trade_id)
       THEN /\ response' = Reply("create_trade", 400)
            /\ UNCHANGED <<trades, transactions, nextId>>
       ELSE IF ~fetched.ok
       THEN /\ response' = Reply("create_trade", 500)
            /\ UNCHANGED <<trades, transactions, nextId>>
       ELSE LET t0 == NewTrade(trade_id, purchase_date, purchase_price, shares,
                               entry_day_low, stop_override, portfolio_size)
                t1 == WithEntrySnapshot(WithCurrentData(t0, fetched.current_data),
                                        fetched.entry_snapshot)
            IN  \E t2 \in {update_all_calculations(t1, transactions, today)} :
                    Finish("create_trade", 201, t2, Put(trades, t2), transactions,
                           nextId)

CreateTrade(trade_id, purchase_date, purchase_price, shares, entry_day_low, stop_override, portfolio_size, fetched) ==
    /\ UNCHANGED <<today, calc, sessions, ui>>
    /\ IF Exists(trade_id)
       THEN /\ response' = Reply("create_trade", 400)
            /\ UNCHANGED <<trades, transactions, nextId>>
       ELSE LET t0 == NewTrade(trade_id, purchase_date, purchase_price, shares,
                               entry_day_low, stop_override, portfolio_size)
                t1 == IF fetched.ok
                      THEN WithEntrySnapshot(
                               WithCurrentData(t0, fetched.current_data),
                               fetched.entry_snapshot)
                      ELSE t0
            IN  \E t2 \in {update_all_calculations(t1, transactions, today)} :
                    Finish("create_trade", 201, t2, Put(trades, t2), transactions,
                           nextId)

\* trade.shares_remaining or trade.shares
shares_available_of(t) ==
    IF t.shares_remaining # 0 THEN t.shares_remaining ELSE t.shares

\* Mutant: the row is inserted and committed without recalculating the trade.
CreateTransaction_no_recalc(trade_id, shares, price, fees) ==
    /\ nextId <= MaxTxnId
    /\ UNCHANGED <<today, calc, sessions, ui>>
    /\ IF ~Exists(trade_id)
       THEN /\ response' = Reply("create_transaction", 404)
            /\ UNCHANGED <<trades, transactions, nextId>>
       ELSE IF shares > shares_available_of(trades[trade_id])
       THEN /\ response' = Reply("create_transaction", 400)
            /\ UNCHANGED <<trades, transactions, nextId>>
       ELSE LET fee == IF Truthy(fees) THEN fees ELSE Num(0)
                x == [id |-> nextId, trade_id |-> trade_id, shares |-> shares,
                      price |-> price, fees |-> fee,
                      proceeds |-> calculate_transaction_proceeds(shares, price, fee)]
            IN  Finish("create_transaction", 201, trades[trade_id], trades,
                       transactions \cup {x}, nextId + 1)

\* POST /transactions
CreateTransaction(trade_id, shares, price, fees) ==
    /\ nextId <= MaxTxnId
    /\ UNCHANGED <<today, calc, sessions, ui>>
    /\ IF ~Exists(trade_id)
       THEN /\ response' = Reply("create_transaction", 404)
            /\ UNCHANGED <<trades, transactions, nextId>>
       ELSE IF shares > shares_available_of(trades[trade_id])
       THEN /\ response' = Reply("create_transaction", 400)
            /\ UNCHANGED <<trades, transactions, nextId>>
       ELSE LET fee == IF Truthy(fees) THEN fees ELSE Num(0)
                x == [id |-> nextId, trade_id |-> trade_id, shares |-> shares,
                      price |-> price, fees |-> fee,
                      proceeds |-> calculate_transaction_proceeds(shares, price, fee)]
                txs == transactions \cup {x}
            IN  \E t \in {update_all_calculations(trades[trade_id], txs, today)} :
                    Finish("create_transaction", 201, t, Put(trades, t), txs,
                           nextId + 1)

\* PATCH /transactions/{id}: the new ledger total may not exceed the
\* trade's entry shares; proceeds and the trade are recalculated.
UpdateTransaction(x, shares, price, fees) ==
    /\ x \in transactions
    /\ UNCHANGED <<today, calc, sessions, ui>>
    /\ LET t0 == trades[x.trade_id]
           rest == transactions \ {x}
       IN  IF SumShares(TxnsOf(rest, x.trade_id)) + shares > t0.shares
           THEN /\ response' = Reply("update_transaction", 400)
                /\ UNCHANGED <<trades, transactions, nextId>>
           ELSE LET fee == IF Truthy(fees) THEN fees ELSE Num(0)
                    y == [x EXCEPT !.shares = shares, !.price = price, !.fees = fee,
                                   !.proceeds =
                                       calculate_transaction_proceeds(shares, price, fee)]
                    txs == rest \cup {y}
                IN  \E t \in {update_all_calculations(t0, txs, today)} :
                        Finish("update_transaction", 200, t, Put(trades, t), txs,
                               nextId)

\* DELETE /transactions/{id}
DeleteTransaction(x) ==
    /\ x \in transactions
    /\ UNCHANGED <<today, calc, sessions, ui>>
    /\ LET txs == transactions \ {x}
       IN  \E t \in {update_all_calculations(trades[x.trade_id], txs, today)} :
               Finish("delete_transaction", 204, t, Put(trades, t), txs, nextId)

\* POST /trades/{trade_id}/refresh: only the current-* fields are written;
\* a failed fetch passes them to the engine as unknown.
RefreshMarketData(trade_id, fetched) ==
    /\ Exists(trade_id)
    /\ UNCHANGED <<today, calc, sessions, ui>>
    /\ LET unknown == [current_price |-> None, atr_14 |-> None, sma_50 |-> None,
                       sma_10 |-> None]
           t1 == WithCurrentData(trades[trade_id],
                                 IF fetched.ok THEN fetched.current_data ELSE unknown)
       IN  \E t \in {update_all_calculations(t1, transactions, today)} :
               Finish("refresh", 200, t, Put(trades, t), transactions, nextId)

\* PATCH /trades/{trade_id}: entry_day_low, stop_override, portfolio_size.
UpdateTrade(trade_id, entry_day_low, stop_override, portfolio_size) ==
    /\ Exists(trade_id)
    /\ UNCHANGED <<today, calc, sessions, ui>>
    /\ LET t1 == [trades[trade_id] EXCEPT !.entry_day_low = entry_day_low,
                                          !.stop_override = stop_override,
                                          !.portfolio_size = portfolio_size]
       IN  \E t \in {update_all_calculations(t1, transactions, today)} :
               Finish("update_trade", 200, t, Put(trades, t), transactions, nextId)

\* DELETE /trades/{trade_id}: ON DELETE CASCADE removes its transactions.
\* Mutant: the foreign key has no ON DELETE CASCADE.
DeleteTrade_no_cascade(trade_id) ==
    /\ Exists(trade_id)
    /\ UNCHANGED <<today, calc, sessions, ui, nextId, transactions>>
    /\ trades' = [id \in DOMAIN trades \ {trade_id} |-> trades[id]]
    /\ response' = Reply("delete_trade", 204)

DeleteTrade(trade_id) ==
    /\ Exists(trade_id)
    /\ UNCHANGED <<today, calc, sessions, ui, nextId>>
    /\ trades' = [id \in DOMAIN trades \ {trade_id} |-> trades[id]]
    /\ transactions' = {x \in transactions : x.trade_id # trade_id}
    /\ response' = Reply("delete_trade", 204)

\* migrations/migrate_to_v2.py: every stored trade is re-fetched and
\* recalculated, one commit at the end.
MigrateOne(t, fetched) ==
    LET t1 == IF fetched.ok
              THEN WithCurrentData(
                       WithEntrySnapshot(t, fetched.entry_snapshot),
                       fetched.current_data)
              ELSE t
    IN  update_all_calculations(t1, transactions, today)

migrate_existing_trades(fetched) ==
    /\ DOMAIN trades # {}
    /\ UNCHANGED <<today, calc, sessions, ui>>
    /\ \E trs \in {[id \in DOMAIN trades |-> MigrateOne(trades[id], fetched[id])]} :
           IF (\E id \in DOMAIN trs : Raises(trs[id])) \/ ~CommitOk(trs, transactions)
           THEN /\ response' = Reply("migrate", 500)
                /\ UNCHANGED <<trades, transactions, nextId>>
           ELSE /\ trades' = trs
                /\ response' = Reply("migrate", 200)
                /\ UNCHANGED <<transactions, nextId>>

----------------------------------------------------------------------------
(* The journal: handlers over the database.                                *)

Init ==
    /\ trades = << >>
    /\ transactions = {}
    /\ nextId = 1
    /\ today = 0
    /\ response = Reply("none", 0)
    /\ calc = IdleCalc
    /\ sessions = NoSessions
    /\ ui = NoUi

Next ==
    \/ \E id \in TradeIds, d \in PurchaseDates, p \in PurchasePrices,
          n \in 1 .. MaxShares, low \in EntryDayLows, so \in StopOverrides,
          ps \in PortfolioSizes, f \in FetchOutcomes :
          CreateTrade(id, d, p, n, low, so, ps, f)
    \/ \E id \in TradeIds, n \in 1 .. MaxShares + 1, p \in TxnPrices, fee \in TxnFees :
          CreateTransaction(id, n, p, fee)
    \/ \E x \in transactions, n \in 1 .. MaxShares + 1, p \in TxnPrices,
          fee \in TxnFees :
          UpdateTransaction(x, n, p, fee)
    \/ \E x \in transactions : DeleteTransaction(x)
    \/ \E id \in TradeIds, f \in FetchOutcomes : RefreshMarketData(id, f)
    \/ \E id \in TradeIds, low \in EntryDayLows, so \in StopOverrides,
          ps \in PortfolioSizes :
          UpdateTrade(id, low, so, ps)
    \/ \E id \in TradeIds : DeleteTrade(id)
    \/ \E f \in [DOMAIN trades -> FetchOutcomes] : migrate_existing_trades(f)

Spec == Init /\ [][Next]_vars

----------------------------------------------------------------------------
(* The engine in isolation: update_all_calculations applied, up to MaxRuns *)
(* times in succession, to one stored trade, its ledger and its market     *)
(* snapshot, all drawn from the values the tables can hold.                *)

CalcEntryDayLows == {None, Num(0), Num(95)}

CalcStopOverrides == {None, Num(0), Num(90), Num(100), Num(110)}

CalcPortfolioSizes == {None, Num(0), Num(1000)}

CalcCurrentData ==
    {[current_price |-> None, atr_14 |-> None, sma_50 |-> None, sma_10 |-> None],
     [current_price |-> Num(110), atr_14 |-> Num(2), sma_50 |-> Num(100),
      sma_10 |-> Num(105)],
     [current_price |-> Num(110), atr_14 |-> None, sma_50 |-> Num(100),
      sma_10 |-> None],
     [current_price |-> Num(0), atr_14 |-> Num(2), sma_50 |-> Num(100),
      sma_10 |-> Num(105)],
     [current_price |-> Num(110), atr_14 |-> Num(0), sma_50 |-> Num(100),
      sma_10 |-> Num(105)],
     [current_price |-> Num(110), atr_14 |-> Num(2), sma_50 |-> Num(0),
      sma_10 |-> Num(105)]}

CalcEntrySnapshots ==
    {[atr_14 |-> None, sma_50 |-> None],
     [atr_14 |-> Num(2), sma_50 |-> Num(95)],
     [atr_14 |-> Num(4), sma_50 |-> None],
     [atr_14 |-> Num(0), sma_50 |-> Num(95)],
     [atr_14 |-> Num(2), sma_50 |-> Num(0)]}

\* A stored transaction row; proceeds were set when the row was written.
TxnRow(id, trade_id, shares, price, fees) ==
    [id |-> id, trade_id |-> trade_id, shares |-> shares, price |-> price,
     fees |-> fees, proceeds |-> calculate_transaction_proceeds(shares, price, fees)]

\* Ledgers the validation admits for a trade of the given size: rows
\* numbered 1..k whose shares sum to at most the entry shares.
CalcLedgers(trade_id, shares) ==
    {txs \in SUBSET {TxnRow(id, trade_id, n, p, f) :
                        id \in 1 .. MaxTxnId, n \in 1 .. MaxShares,
                        p \in TxnPrices, f \in TxnFees} :
        /\ \A x, y \in txs : x.id = y.id => x = y
        /\ \A x \in txs : \A i \in 1 .. x.id : \E y \in txs : y.id = i
        /\ SumShares(txs) <= shares}

CalcTrades ==
    {WithEntrySnapshot(
         WithCurrentData(NewTrade(id, d, p, n, low, so, ps), c), e) :
        id \in TradeIds, d \in PurchaseDates, p \in PurchasePrices,
        n \in 1 .. MaxShares, low \in CalcEntryDayLows, so \in CalcStopOverrides,
        ps \in CalcPortfolioSizes, c \in CalcCurrentData, e \in CalcEntrySnapshots}

InitCalc ==
    /\ trades = << >>
    /\ transactions = {}
    /\ nextId = 1
    /\ today \in 0 .. MaxDay
    /\ response = Reply("none", 0)
    /\ \E t \in CalcTrades : \E txs \in CalcLedgers(t.trade_id, t.shares) :
           calc = [runs |-> 0, txns |-> txs, trade |-> t, before |-> t]
    /\ sessions = NoSessions
    /\ ui = NoUi

\* calc_service.update_all_calculations(trade, db)
RunCalculations ==
    /\ calc.runs < MaxRuns
    /\ \E t \in {update_all_calculations(calc.trade, calc.txns, today)} :
           calc' = [calc EXCEPT !.runs = @ + 1, !.before = calc.trade, !.trade = t]
    /\ UNCHANGED <<trades, transactions, nextId, today, response, sessions, ui>>

NextCalc == RunCalculations

SpecCalc == InitCalc /\ [][NextCalc]_vars

----------------------------------------------------------------------------
(* Properties of the journal (specification Spec).                         *)

LedgerOf(trade_id) == TxnsOf(transactions, trade_id)

\* C1: after any sequence of transaction creations, updates and deletions
\* (each followed by recalculation) a trade's remaining shares plus its
\* exited shares equal its entry shares.
C1_RemainingPlusExited ==
    \A id \in DOMAIN trades :
        trades[id].shares_remaining + trades[id].shares_exited = trades[id].shares

\* A trade with one part exited, just after a transaction was edited.
C1_Witness ==
    /\ response = Reply("update_transaction", 200)
    /\ \E id \in DOMAIN trades :
          trades[id].shares_exited > 0 /\ trades[id].shares_remaining > 0

\* The status the ledger alone determines for a trade of q entry shares.
StatusOfLedger(q, txs) ==
    IF SumShares(txs) = 0 THEN "OPEN"
    ELSE IF SumShares(txs) = q THEN "CLOSED"
    ELSE "PARTIAL"

\* C2: a trade's status is OPEN exactly when nothing was exited, CLOSED
\* exactly when nothing remains and PARTIAL otherwise, and it is the status
\* the current ledger determines, whatever the history of the ledger.
C2_StatusMatchesLedger ==
    \A id \in DOMAIN trades :
        LET t == trades[id]
        IN  /\ (t.status = "OPEN") <=> (t.shares_exited = 0)
            /\ (t.status = "CLOSED") <=> (t.shares_remaining = 0)
            /\ (t.status = "PARTIAL") <=>
                   (t.shares_exited # 0 /\ t.shares_remaining # 0)
            /\ t.status = StatusOfLedger(t.shares, LedgerOf(id))

\* A closed trade reopened to PARTIAL by deleting one of its transactions.
C2_Witness ==
    /\ response = Reply("delete_transaction", 204)
    /\ \E id \in DOMAIN trades : trades[id].status = "PARTIAL"

\* The ledger never holds more shares than the trade was entered with.
NoOverExit ==
    \A id \in DOMAIN trades :
        /\ SumShares(LedgerOf(id)) <= trades[id].shares
        /\ trades[id].shares_remaining >= 0

\* A creation is accepted only for at most the shares that remained.
AcceptedCreationFits ==
    response' = Reply("create_transaction", 201) =>
        \A x \in transactions' \ transactions :
            /\ x.trade_id \in DOMAIN trades
            /\ x.shares <= trades[x.trade_id].shares_remaining

\* C3: the shares of a trade's transactions never sum to more than its
\* entry shares (remaining shares are never negative), and a creation
\* asking for more than remains, also on a trade with nothing remaining,
\* is not accepted.
C3_NoOverExit == [](NoOverExit) /\ [][AcceptedCreationFits]_vars

\* A creation against a closed trade, passed by the share validation and
\* turned away by the CHECK constraint at commit.
C3_Witness ==
    /\ response = Reply("create_transaction", 500)
    /\ \E id \in DOMAIN trades :
          trades[id].shares_remaining = 0 /\ trades[id].status = "CLOSED"

\* C4: once a trade exists, no later operation changes its atr_at_entry or
\* its sma_at_entry.
C4_EntrySnapshotWriteOnce ==
    [][\A id \in DOMAIN trades \cap DOMAIN trades' :
          /\ trades'[id].atr_at_entry = trades[id].atr_at_entry
          /\ trades'[id].sma_at_entry = trades[id].sma_at_entry]_vars

\* The rollups of a stored trade as its current ledger gives them.
RollupsMatchLedger(t, txs) ==
    LET exited == SumShares(txs)
        remaining == t.shares - exited
        realized == QSub(SumProceeds(txs), QMul(Num(exited), t.purchase_price))
        unrealized == IF remaining = 0 THEN Num(0)
                      ELSE IF t.current_price = None THEN None
                      ELSE QMul(Num(remaining),
                                QSub(t.current_price, t.purchase_price))
    IN  /\ t.shares_exited = exited
        /\ t.shares_remaining = remaining
        /\ t.total_proceeds = SumProceeds(txs)
        /\ t.total_fees = SumFees(txs)
        /\ t.realized_pnl = realized
        /\ t.unrealized_pnl = unrealized
        /\ t.total_pnl = (IF unrealized = None THEN None
                          ELSE QAdd(realized, unrealized))
        /\ t.status = StatusOfLedger(t.shares, txs)

\* C5: once a transaction insert, update or delete or a market-data
\* refresh has completed, the trade's stored rollups (exited and remaining
\* shares, proceeds, fees, PnL, status) are those of the current ledger.
C5_RollupsFresh ==
    \A id \in DOMAIN trades : RollupsMatchLedger(trades[id], LedgerOf(id))

\* A refresh of a partly exited trade that has a current price.
C5_Witness ==
    /\ response = Reply("refresh", 200)
    /\ \E id \in DOMAIN trades :
          /\ trades[id].shares_exited > 0
          /\ trades[id].shares_remaining > 0
          /\ trades[id].current_price # None

----------------------------------------------------------------------------
(* Properties of the engine (specification SpecCalc).                      *)

Ran == calc.runs >= 1

Zero(x) == x # None /\ x[1] = 0 /\ x[2] # 0

Propagates(t, f, missing, degenerate) ==
    /\ missing => t[f] = None
    /\ (~missing /\ ~degenerate) => IsKnown(t[f])

InputsKnown(t, txs, f) ==
    LET floor == t.stop_override # None \/ t.entry_day_low # None
        price == t.current_price # None
        closed == SumShares(TxnsOf(txs, t.trade_id)) = t.shares
        exits == SumShares(TxnsOf(txs, t.trade_id)) > 0
        size == t.portfolio_size # None
    IN  CASE f \in {"stop_3", "one_r", "stop_2", "stop_1", "tp_1r", "tp_2r", "tp_3r",
                    "entry_pct_above_stop3"} -> floor
          [] f = "day_pct_moved" -> price /\ t.entry_day_low # None
          [] f = "cp_pct_diff_from_entry" -> price
          [] f \in {"sold_price", "pct_gain_loss_trade", "unrealized_pnl",
                    "total_pnl"} -> closed \/ price
          [] f = "avg_exit_price" -> exits
          [] f = "pct_portfolio_invested_at_entry" -> size
          [] f = "pct_portfolio_current" -> size /\ price
          [] f = "gain_loss_pct_portfolio_impact" -> size /\ (closed \/ price)
          [] f = "risk_atr_pct_above_low" ->
                 t.atr_at_entry # None /\ t.entry_day_low # None
          [] f = "risk_atr_r_units" -> floor /\ t.atr_at_entry # None
          [] f = "atr_pct_multiple_from_ma_at_entry" ->
                 t.sma_at_entry # None /\ t.atr_at_entry # None
          [] f = "atr_pct_multiple_from_ma" ->
                 price /\ t.sma_50 # None /\ t.atr_14 # None
          [] f = "r_multiple" -> floor /\ (closed \/ price)
          [] OTHER -> TRUE

PlusR(P, a, b, R) ==
    IF R = None THEN None
    ELSE Norm(b * P[1] * R[2] + a * R[1] * P[2], b * P[2] * R[2])

\* The ladder of stops and targets around the entry price: Stop2 and Stop1
\* two thirds and one third of the risk unit below it, the three targets
\* one, two and three risk units above it.
LadderAroundEntry(t) ==
    /\ t.one_r = (IF t.stop_3 = None THEN None
                  ELSE PlusR(t.purchase_price, -1, 1, t.stop_3))
    /\ t.stop_2 = PlusR(t.purchase_price, -2, 3, t.one_r)
    /\ t.stop_1 = PlusR(t.purchase_price, -1, 3, t.one_r)
    /\ t.tp_1r = PlusR(t.purchase_price, 1, 1, t.one_r)
    /\ t.tp_2r = PlusR(t.purchase_price, 2, 1, t.one_r)
    /\ t.tp_3r = PlusR(t.purchase_price, 3, 1, t.one_r)

\* Entry price 100, floor price 95, no override.
ScenarioFloor95(t) ==
    /\ t.purchase_price = Num(100)
    /\ t.entry_day_low = Num(95)
    /\ t.stop_override = None

FloorAtOrAboveEntry(t) ==
    /\ IsKnown(t.stop_3)
    /\ QLeZero(QSub(t.purchase_price, t.stop_3))

\* C12: when the effective floor is at or above the entry price (R <= 0)
\* the risk unit is unknown, not zero or negative, and so is every output
\* derived from it: Stop2, Stop1, the three targets, the risk/volatility
\* ratio and the R-multiple.
C12_NonPositiveRiskUnitUnknown ==
    Ran =>
    LET t == calc.trade
    IN  FloorAtOrAboveEntry(t) =>
            /\ t.one_r = None
            /\ t.stop_2 = None
            /\ t.stop_1 = None
            /\ t.tp_1r = None
            /\ t.tp_2r = None
            /\ t.tp_3r = None
            /\ t.risk_atr_r_units = None
            /\ t.r_multiple = None

\* C13: the R-multiple is TotalPnL / (Q x R) whenever the risk unit R is
\* known and above 0 (a TotalPnL of 0 gives 0; Q = 100, R = 5 and a TotalPnL
\* of 1000 give 2), and it is unknown when R is unknown or not above 0.
C13_RMultipleIsPnLOverInitialRisk ==
    /\ calculate_r_multiple(Num(1000), Num(5), 100) = Num(2)
    /\ calculate_r_multiple(Num(0), Num(5), 100) = Num(0)
    /\ Ran =>
       LET t == calc.trade
           R == t.one_r
           pnl == t.total_pnl
       IN  /\ (R = None \/ QLeZero(R)) => t.r_multiple = None
           /\ (R # None /\ ~QLeZero(R) /\ pnl # None) =>
                  /\ t.r_multiple = Norm(pnl[1] * R[2], pnl[2] * t.shares * R[1])
                  /\ Zero(pnl) => t.r_multiple = Num(0)
           /\ (R # None /\ ~QLeZero(R) /\ pnl = None) => t.r_multiple = None

\* Two shares bought at 100 with a stop at 90 and now priced at 110: the PnL
\* of 20 over an initial risk of 20 is an R-multiple of 1.
C13_Witness ==
    /\ Ran
    /\ calc.trade.shares = 2
    /\ calc.trade.one_r = Num(10)
    /\ calc.trade.total_pnl = Num(20)
    /\ calc.trade.r_multiple = Num(1)

----------------------------------------------------------------------------
(* Rollups, PnL and sold price (specifications Spec and SpecCalc).         *)

\* The sum of quantity x price - fee over the rows of a ledger.
RECURSIVE SumNetOfFees(_)
SumNetOfFees(txs) ==
    IF txs = {} THEN Num(0)
    ELSE LET x == CHOOSE y \in txs : TRUE
             net == Norm(x.shares * x.price[1] * x.fees[2] - x.fees[1] * x.price[2],
                         x.price[2] * x.fees[2])
         IN  QAdd(net, SumNetOfFees(txs \ {x}))

\* A position of 200 shares with one exit of 60 at 251.08 and a fee of 1.50.
ScenarioPartialExit ==
    calculate_trade_rollups(NewTrade("T1", 0, Num(250), 200, None, None, None),
                            {TxnRow(1, "T1", 60, <<6277, 25>>, <<3, 2>>)})

\* C14: the exited shares are the sum of the transaction quantities, the
\* total fees the sum of the transaction fees and the total proceeds the sum
\* of quantity x price - fee; 200 shares with one exit of 60 at 251.08 and a
\* fee of 1.50 give 60 exited, 140 remaining, proceeds 15063.30 and status
\* PARTIAL.
C14_LedgerSums ==
    /\ \E t \in {ScenarioPartialExit} :
          /\ t.shares_exited = 60
          /\ t.shares_remaining = 140
          /\ t.total_proceeds = <<150633, 10>>
          /\ t.total_fees = <<3, 2>>
          /\ t.status = "PARTIAL"
    /\ \A id \in DOMAIN trades :
          /\ trades[id].shares_exited = SumShares(LedgerOf(id))
          /\ trades[id].total_fees = SumFees(LedgerOf(id))
          /\ trades[id].total_proceeds = SumNetOfFees(LedgerOf(id))

\* One of two shares has been sold at 110 with a fee of 1.
C14_Witness ==
    \E id \in DOMAIN trades :
        /\ trades[id].status = "PARTIAL"
        /\ trades[id].shares_exited = 1
        /\ trades[id].total_fees = Num(1)
        /\ trades[id].total_proceeds = Num(109)

\* The sum of quantity x price over the rows of a ledger, fees left out.
RECURSIVE SumGross(_)
SumGross(txs) ==
    IF txs = {} THEN Num(0)
    ELSE LET x == CHOOSE y \in txs : TRUE
         IN  QAdd(Norm(x.shares * x.price[1], x.price[2]), SumGross(txs \ {x}))

\* Two exits of unequal size and price: 2 shares at 110 and 1 share at 120,
\* each with a fee of 1.
ScenarioUnequalExits ==
    calculate_exit_metrics(NewTrade("T1", 0, Num(100), 3, None, None, None),
                           {TxnRow(1, "T1", 2, Num(110), Num(1)),
                            TxnRow(2, "T1", 1, Num(120), Num(1))})

C17_RealizedAndTotalPnL ==
    Ran =>
    LET t == calc.trade
        tp == t.total_proceeds
        pp == t.purchase_price
        r == t.realized_pnl
        u == t.unrealized_pnl
    IN  /\ r = Norm(tp[1] * pp[2] - t.shares_exited * pp[1] * tp[2], tp[2] * pp[2])
        /\ u # None => t.total_pnl = Norm(r[1] * u[2] + u[1] * r[2], r[2] * u[2])
        /\ u = None => t.total_pnl = None
        /\ t.shares_exited = t.shares =>
               /\ u = Num(0)
               /\ t.total_pnl = r

\* Both shares bought at 100 have been sold at 110 with a fee of 1 each:
\* realized and total PnL are 18 and the unrealized PnL is 0.
C17_Witness ==
    /\ Ran
    /\ calc.trade.status = "CLOSED"
    /\ calc.trade.shares_exited = 2
    /\ calc.trade.realized_pnl = Num(18)
    /\ calc.trade.unrealized_pnl = Num(0)
    /\ calc.trade.total_pnl = Num(18)

\* C18: the sold price is the average exit price when the trade is fully
\* closed and the current price otherwise; the gain/loss % of the trade is
\* (SoldPrice - P) / P; both are unknown when the average exit price and the
\* current price are both absent.
C18_SoldPriceAndGainLoss ==
    Ran =>
    LET t == calc.trade
        s == t.sold_price
        pp == t.purchase_price
    IN  /\ t.status = "CLOSED" => s = t.avg_exit_price
        /\ t.status # "CLOSED" => s = t.current_price
        /\ s # None =>
               t.pct_gain_loss_trade =
                   Norm((s[1] * pp[2] - pp[1] * s[2]) * pp[2], s[2] * pp[2] * pp[1])
        /\ (t.avg_exit_price = None /\ t.current_price = None) =>
               /\ s = None
               /\ t.pct_gain_loss_trade = None

\* A closed trade bought at 100 and sold at 110 with no current price: the
\* sold price is 110 and the gain 10%.
C18_Witness ==
    /\ Ran
    /\ calc.trade.status = "CLOSED"
    /\ calc.trade.current_price = None
    /\ calc.trade.sold_price = Num(110)
    /\ calc.trade.pct_gain_loss_trade = <<1, 10>>

\* The three derived fields that read the portfolio size.
PortfolioFields ==
    {"pct_portfolio_invested_at_entry", "pct_portfolio_current",
     "gain_loss_pct_portfolio_impact"}

\* C19: when the portfolio size is absent the three portfolio fields are
\* unknown and every other derived field has the value it has when the same
\* trade is calculated with a portfolio size present.
C19_PortfolioSizeOnlyAffectsPortfolioFields ==
    (Ran /\ calc.before.portfolio_size = None) =>
    \E sized \in {update_all_calculations(
                      [calc.before EXCEPT !.portfolio_size = Num(1000)],
                      calc.txns, today)} :
        /\ \A f \in PortfolioFields : calc.trade[f] = None
        /\ \A f \in DerivedFields \ PortfolioFields : calc.trade[f] = sized[f]

\* A trade without a portfolio size whose gain/loss %, PnL and R-multiple
\* are numbers while its portfolio fields are unknown.
C19_Witness ==
    /\ Ran
    /\ calc.trade.portfolio_size = None
    /\ calc.trade.current_price = Num(110)
    /\ calc.trade.shares_remaining > 0
    /\ \A f \in PortfolioFields : calc.trade[f] = None
    /\ IsKnown(calc.trade.pct_gain_loss_trade)
    /\ IsKnown(calc.trade.total_pnl)
    /\ IsKnown(calc.trade.r_multiple)

\* C20: the portfolio impact is the gain/loss % of the trade times the
\* % of the portfolio invested at entry when both are known (0.10 x 5.0 is
\* 0.5) and unknown when either is unknown.
C20_PortfolioImpactIsProduct ==
    /\ gain_loss_pct_portfolio_impact_of(<<1, 10>>, Num(5)) = <<1, 2>>
    /\ Ran =>
       LET t == calc.trade
           g == t.pct_gain_loss_trade
           a == t.pct_portfolio_invested_at_entry
       IN  /\ (g # None /\ a # None) =>
                  t.gain_loss_pct_portfolio_impact = Norm(g[1] * a[1], g[2] * a[2])
           /\ (g = None \/ a = None) => t.gain_loss_pct_portfolio_impact = None

\* Two shares bought at 100 in a portfolio of 1000 (20% at entry) and now
\* priced at 110 (a gain of 0.10): the impact is 2.
C20_Witness ==
    /\ Ran
    /\ calc.trade.pct_gain_loss_trade = <<1, 10>>
    /\ calc.trade.pct_portfolio_invested_at_entry = Num(20)
    /\ calc.trade.gain_loss_pct_portfolio_impact = Num(2)

----------------------------------------------------------------------------
(* Risk/ATR metrics, trading days and the order of a run (SpecCalc).       *)

\* The entry volatility is absent or 0.
NoEntryVolatility(t) == t.atr_at_entry = None \/ Zero(t.atr_at_entry)

----------------------------------------------------------------------------
(* Market-data failures, referential integrity and status (Spec).          *)

CurrentInputs == {"current_price", "atr_14", "sma_50", "sma_10"}

EntrySnapshotInputs == {"atr_at_entry", "sma_at_entry"}

LedgerDerivedFields ==
    {"shares_exited", "shares_remaining", "total_proceeds", "total_fees",
     "avg_exit_price", "realized_pnl", "status"}

EntrySnapshotDerivedFields ==
    {"risk_atr_pct_above_low", "risk_atr_r_units", "atr_pct_multiple_from_ma_at_entry"}

CurrentDerivedFields ==
    {"day_pct_moved", "cp_pct_diff_from_entry", "pct_portfolio_current",
     "atr_pct_multiple_from_ma"}

FailedFetch == [ok |-> FALSE]

\* The step is a trade creation whose market-data fetch failed.
CreateWithFailedFetch(id) ==
    /\ response'.op = "create_trade"
    /\ ~Exists(id)
    /\ \E d \in PurchaseDates, p \in PurchasePrices, n \in 1 .. MaxShares,
          low \in EntryDayLows, so \in StopOverrides, ps \in PortfolioSizes :
          CreateTrade(id, d, p, n, low, so, ps, FailedFetch)

\* The step is a refresh whose market-data fetch failed.
RefreshWithFailedFetch(id) ==
    /\ response'.op = "refresh"
    /\ RefreshMarketData(id, FailedFetch)

\* The step is a re-processing of the stored trades in which the fetch for
\* trade id failed.
MigrateWithFailedFetch(id) ==
    /\ response'.op = "migrate"
    /\ Exists(id)
    /\ \E f \in [DOMAIN trades -> FetchOutcomes] :
          ~f[id].ok /\ migrate_existing_trades(f)

\* The operation completed, the trade's current-market inputs are unknown,
\* and the ledger-derived and entry-snapshot-derived fields of a trade that
\* was stored before have kept their values.
DegradedToUnknown(id) ==
    /\ response'.code \in {200, 201}
    /\ id \in DOMAIN trades'
    /\ \A f \in CurrentInputs \cup CurrentDerivedFields : trades'[id][f] = None
    /\ Exists(id) =>
           \A f \in LedgerDerivedFields \cup EntrySnapshotInputs
                       \cup EntrySnapshotDerivedFields :
               trades'[id][f] = trades[id][f]

NoOrphanTransactions == \A x \in transactions : x.trade_id \in DOMAIN trades

\* A creation request for a trade that is not stored is answered 404 and
\* stores nothing; a deleted trade takes its transactions with it.
RefusedOrCascaded ==
    /\ (response'.op = "create_transaction" /\ DOMAIN trades = {}) =>
           response'.code = 404 /\ transactions' = transactions
    /\ (response'.op = "delete_trade" /\ response'.code = 204) =>
           \A x \in transactions : x.trade_id \notin DOMAIN trades' => x \notin transactions'

\* C23: at all times every stored transaction refers to an existing trade:
\* a transaction cannot be created for a trade ID that does not exist, and
\* deleting a trade removes all of its transactions.
C23_TransactionsReferToTrades ==
    [](NoOrphanTransactions) /\ [][RefusedOrCascaded]_vars

\* A trade that had a transaction has been deleted; no transaction is left.
C23_Witness ==
    /\ response = Reply("delete_trade", 204)
    /\ nextId > 1
    /\ trades = << >>
    /\ transactions = {}

\* The number of Monday-to-Friday dates from day a to day b, both included
\* (day 0 is a Monday).
RECURSIVE WeekdaysFromTo(_, _)
WeekdaysFromTo(a, b) ==
    IF a > b THEN 0
    ELSE (IF a % 7 \in {5, 6} THEN 0 ELSE 1) + WeekdaysFromTo(a + 1, b)

\* Dates from a Monday to the Tuesday of the following week.
TwoWeeks == 0 .. 8

Scrub(t) ==
    [f \in DOMAIN t |->
        IF f \notin DerivedFields THEN t[f]
        ELSE IF f = "status" THEN "NULL"
        ELSE IF f \in {"shares_exited", "shares_remaining"} THEN 0
        ELSE None]

StatusRank(status) ==
    CASE status = "OPEN" -> 1
      [] status = "PARTIAL" -> 2
      [] status = "CLOSED" -> 3
      [] OTHER -> 0

\* C27: as exit transactions are added to a trade its status only moves
\* forward, OPEN -> PARTIAL -> CLOSED: a creation request never takes a
\* CLOSED trade back to PARTIAL or OPEN, nor a PARTIAL trade back to OPEN.
C27_StatusOnlyMovesForward ==
    [][response'.op = "create_transaction" =>
          \A id \in DOMAIN trades \cap DOMAIN trades' :
              StatusRank(trades'[id].status) >= StatusRank(trades[id].status)]_vars

\* A trade closed by its second exit.
C27_Witness ==
    /\ response = Reply("create_transaction", 201)
    /\ \E id \in DOMAIN trades :
          /\ trades[id].status = "CLOSED"
          /\ Cardinality(LedgerOf(id)) = 2


----------------------------------------------------------------------------
(* Concurrent requests: POST /transactions handled by two workers at once, *)
(* each in a database session of its own.  The handler takes no lock and   *)
(* the sessions run at the database's default isolation (READ COMMITTED):  *)
(* a query sees the rows committed so far and the session's own pending    *)
(* rows.  The handler's statements are the steps.                          *)

Requests == {1, 2}

\* A stored trade as an earlier, committed request left it.
StoredTrade(trade_id, shares) ==
    update_all_calculations(
        NewTrade(trade_id, 0, Num(100), shares, None, None, None), {}, 0)

\* A request as the worker receives it.
Received(trade_id, shares, price) ==
    [pc |-> "received", trade_id |-> trade_id, shares |-> shares, price |-> price,
     trade |-> None, row |-> None, code |-> 0]

InitConc ==
    /\ \E n \in 1 .. MaxShares :
           trades = Put(<< >>, StoredTrade("T1", n))
    /\ transactions = {}
    /\ nextId = 1
    /\ today = 0
    /\ response = Reply("none", 0)
    /\ calc = IdleCalc
    /\ ui = NoUi
    /\ sessions \in [Requests -> {Received(id, n, p) :
                                     id \in {"T1"}, n \in 1 .. MaxShares + 1,
                                     p \in TxnPrices}]

\* The worker answers the request; the session is closed.
Answer(s, code) ==
    /\ sessions' = [sessions EXCEPT ![s].pc = "done", ![s].code = code]
    /\ response' = Reply("create_transaction", code)

\* db.query(Trade)...first() and the two validations.
Validate(s) ==
    /\ sessions[s].pc = "received"
    /\ UNCHANGED <<trades, transactions, nextId, today, calc, ui>>
    /\ IF ~Exists(sessions[s].trade_id)
       THEN Answer(s, 404)
       ELSE IF sessions[s].shares > shares_available_of(trades[sessions[s].trade_id])
       THEN Answer(s, 400)
       ELSE /\ sessions' = [sessions EXCEPT ![s].pc = "validated",
                                            ![s].trade = trades[sessions[s].trade_id]]
            /\ UNCHANGED response

\* db.add(transaction) and update_all_calculations(trade, db): the ledger
\* query flushes the pending row and reads the committed rows with it.
AddAndRecalculate(s) ==
    /\ sessions[s].pc = "validated"
    /\ UNCHANGED <<trades, transactions, today, calc, ui, response>>
    /\ nextId' = nextId + 1
    /\ LET r == sessions[s]
           x == TxnRow(nextId, r.trade_id, r.shares, r.price, Num(0))
       IN  \E t \in {update_all_calculations(r.trade, transactions \cup {x}, today)} :
               sessions' = [sessions EXCEPT ![s].pc = "recalculated",
                                            ![s].row = x, ![s].trade = t]

\* db.commit(): the session's row and its copy of the trade are written;
\* a violated CHECK constraint rolls the session back.
Commit(s) ==
    /\ sessions[s].pc = "recalculated"
    /\ UNCHANGED <<nextId, today, calc, ui>>
    /\ LET r == sessions[s]
           trs == Put(trades, r.trade)
           txs == transactions \cup {r.row}
       IN  IF ~Raises(r.trade) /\ CommitOk(trs, txs)
           THEN /\ trades' = trs
                /\ transactions' = txs
                /\ Answer(s, 201)
           ELSE /\ UNCHANGED <<trades, transactions>>
                /\ Answer(s, 500)

NextConc ==
    \/ \E s \in Requests : Validate(s)
    \/ \E s \in Requests : AddAndRecalculate(s)
    \/ \E s \in Requests : Commit(s)

SpecConc == InitConc /\ [][NextConc]_vars

AllAnswered == DOMAIN sessions # {} /\ \A s \in DOMAIN sessions : sessions[s].pc = "done"

\* C28: once two concurrently processed creations for one trade have both
\* been answered, the trade's ledger holds at most its entry shares.
C28_ConcurrentCreatesKeepLedgerWithinEntry ==
    AllAnswered =>
        \A id \in DOMAIN trades : SumShares(LedgerOf(id)) <= trades[id].shares


----------------------------------------------------------------------------
(* The Transactions page: the form that adds an exit transaction.  The     *)
(* repository holds two versions of the page, each with its own form       *)
(* component; the page mounts the form, the form's submit handler runs to  *)
(* its await, the backend handles the request, and the handler continues.  *)

TransactionForms == {"AddTransactionModal", "CreateTransactionModal"}

FormTradeIds == TradeIds \cup {"T9"}

\* The page as mounted: form hidden, nothing submitted.  resolved counts the
\* create-transaction calls that returned successfully, signalled the
\* invocations of onSuccess.
FormPage(modal) ==
    [page |-> "transactions", modal |-> modal, show |-> FALSE,
     submitting |-> FALSE, awaiting |-> FALSE, formData |-> None,
     submits |-> 0, resolved |-> 0, signalled |-> 0, alert |-> "none"]

InitForm ==
    /\ \E n \in 1 .. MaxShares : trades = Put(<< >>, StoredTrade("T1", n))
    /\ transactions = {}
    /\ nextId = 1
    /\ today = 0
    /\ response = Reply("none", 0)
    /\ calc = IdleCalc
    /\ sessions = NoSessions
    /\ ui \in {FormPage(m) : m \in TransactionForms}

\* onClick={() => setShowAddModal(true)} / setShowCreateForm(true)
ShowForm ==
    /\ ui.page = "transactions"
    /\ ~ui.show
    /\ ui.submits < MaxSubmits
    /\ ui' = [ui EXCEPT !.show = TRUE]
    /\ UNCHANGED <<trades, transactions, nextId, today, response, calc, sessions>>

\* onClose={() => setShowAddModal(false)} / setShowCreateForm(false)
onClose ==
    /\ ui.page = "transactions"
    /\ ui.show
    /\ ui' = [ui EXCEPT !.show = FALSE]
    /\ UNCHANGED <<trades, transactions, nextId, today, response, calc, sessions>>

\* onSuccess={() => { setShow...(false); loadTransactions(); }}
onSuccess(u) == [u EXCEPT !.show = FALSE, !.signalled = @ + 1]

\* AddTransactionModal.handleSubmit: the API call is commented out, so the
\* handler runs from setSubmitting(true) through onSuccess() to the finally
\* block without suspending.
AddTransactionModal_handleSubmit(trade_id, shares) ==
    /\ ui.page = "transactions"
    /\ ui.modal = "AddTransactionModal"
    /\ ui.show /\ ~ui.submitting
    /\ ui.submits < MaxSubmits
    /\ ui' = onSuccess([ui EXCEPT !.formData = [trade_id |-> trade_id, shares |-> shares],
                                  !.submits = @ + 1, !.submitting = FALSE])
    /\ UNCHANGED <<trades, transactions, nextId, today, response, calc, sessions>>

\* CreateTransactionModal.handleSubmit up to its await: the request is sent.
CreateTransactionModal_handleSubmit(trade_id, shares) ==
    /\ ui.page = "transactions"
    /\ ui.modal = "CreateTransactionModal"
    /\ ui.show /\ ~ui.submitting
    /\ ui.submits < MaxSubmits
    /\ nextId <= MaxTxnId
    /\ ui' = [ui EXCEPT !.formData = [trade_id |-> trade_id, shares |-> shares],
                        !.submits = @ + 1, !.submitting = TRUE, !.awaiting = TRUE]
    /\ response' = Reply("pending", 0)
    /\ UNCHANGED <<trades, transactions, nextId, today, calc, sessions>>

\* transactionsApi.create: apiClient.post('/transactions', data) reaches the
\* backend, which handles it.
transactionsApi_create ==
    /\ ui.page = "transactions"
    /\ ui.awaiting
    /\ response = Reply("pending", 0)
    /\ \E p \in TxnPrices, fee \in TxnFees :
           CreateTransaction(ui.formData.trade_id, ui.formData.shares, p, fee)

\* The request fails without an answer from the backend.
NetworkError ==
    /\ ui.page = "transactions"
    /\ ui.awaiting
    /\ response = Reply("pending", 0)
    /\ response' = Reply("create_transaction", 0)
    /\ UNCHANGED <<trades, transactions, nextId, today, calc, sessions, ui>>

\* CreateTransactionModal.handleSubmit after its await: a 2xx answer resolves
\* the call (alert, onSuccess), anything else rejects it (catch: alert);
\* finally setSubmitting(false).
CreateTransactionModal_resume ==
    /\ ui.page = "transactions"
    /\ ui.awaiting
    /\ response.op = "create_transaction"
    /\ ui' = IF response.code = 201
             THEN onSuccess([ui EXCEPT !.awaiting = FALSE, !.submitting = FALSE,
                                       !.resolved = @ + 1, !.alert = "created"])
             ELSE [ui EXCEPT !.awaiting = FALSE, !.submitting = FALSE,
                             !.alert = "failed"]
    /\ UNCHANGED <<trades, transactions, nextId, today, response, calc, sessions>>

NextForm ==
    \/ ShowForm
    \/ onClose
    \/ \E id \in FormTradeIds, n \in 1 .. MaxShares + 1 :
          AddTransactionModal_handleSubmit(id, n)
    \/ \E id \in FormTradeIds, n \in 1 .. MaxShares + 1 :
          CreateTransactionModal_handleSubmit(id, n)
    \/ transactionsApi_create
    \/ NetworkError
    \/ CreateTransactionModal_resume

SpecForm == InitForm /\ [][NextForm]_vars

\* C29: the add-transaction form invokes onSuccess only after a
\* create-transaction API call has completed successfully: success is never
\* signalled more often than such calls have succeeded.
C29_SuccessOnlyAfterCreateSucceeded ==
    ui.page = "transactions" => ui.signalled <= ui.resolved


----------------------------------------------------------------------------
(* The Entries page: the trade list and its status filter.  loadTrades is  *)
(* re-created for every statusFilter and run by an effect; each run sends  *)
(* GET /trades and stores the answer with setTrades when it arrives.       *)
(* Nothing cancels an earlier run or compares an answer with the current   *)
(* filter, and answers arrive in any order.                                *)

StatusFilters == {"ALL", "OPEN", "PARTIAL", "CLOSED"}

\* GET /trades?status=...: the ids of the stored trades with that status.
list_trades(params) ==
    {id \in DOMAIN trades : params = "ALL" \/ trades[id].status = params}

\* The page as mounted: filter ALL, empty list, the effect's first
\* loadTrades awaiting its answer.  changed records that the filter was
\* changed while a request was in flight, failed the rejected requests.
EntriesPage ==
    [page |-> "entries", statusFilter |-> "ALL", trades |-> {}, loading |-> TRUE,
     sent |-> 1, inflight |-> {[seq |-> 1, params |-> "ALL"]},
     changed |-> FALSE, failed |-> 0]

InitEntries ==
    /\ \E n \in 1 .. MaxShares : trades = Put(<< >>, StoredTrade("T1", n))
    /\ transactions = {}
    /\ nextId = 1
    /\ today = 0
    /\ response = Reply("none", 0)
    /\ calc = IdleCalc
    /\ sessions = NoSessions
    /\ ui = EntriesPage

\* onClick={() => setStatusFilter(filter)}; the effect then runs the new
\* loadTrades up to its await.
setStatusFilter(filter) ==
    /\ ui.page = "entries"
    /\ filter # ui.statusFilter
    /\ ui.sent < MaxRequests
    /\ ui' = [ui EXCEPT !.statusFilter = filter, !.loading = TRUE,
                        !.sent = @ + 1,
                        !.inflight = @ \cup {[seq |-> ui.sent + 1, params |-> filter]},
                        !.changed = @ \/ ui.inflight # {}]
    /\ UNCHANGED <<trades, transactions, nextId, today, response, calc, sessions>>

\* loadTrades after its await, the call resolved: setTrades(data), and
\* setLoading(false) in the finally block.
loadTrades_resolved(r) ==
    /\ ui.page = "entries"
    /\ r \in ui.inflight
    /\ ui' = [ui EXCEPT !.trades = list_trades(r.params), !.loading = FALSE,
                        !.inflight = @ \ {r}]
    /\ UNCHANGED <<trades, transactions, nextId, today, response, calc, sessions>>

\* loadTrades after its await, the call rejected: the catch block leaves the
\* list as it is.
loadTrades_rejected(r) ==
    /\ ui.page = "entries"
    /\ r \in ui.inflight
    /\ ui' = [ui EXCEPT !.loading = FALSE, !.inflight = @ \ {r},
                        !.failed = @ + 1]
    /\ UNCHANGED <<trades, transactions, nextId, today, response, calc, sessions>>

NextEntries ==
    \/ \E f \in StatusFilters : setStatusFilter(f)
    \/ \E r \in ui.inflight : loadTrades_resolved(r)
    \/ \E r \in ui.inflight : loadTrades_rejected(r)

SpecEntries == InitEntries /\ [][NextEntries]_vars

\* C30: when the status filter was changed while a trade-list request was in
\* flight, then once every request has been answered the displayed list is
\* the answer to the filter selected last.
C30_DisplayedListIsLatestFilter ==
    (/\ ui.page = "entries"
     /\ ui.changed
     /\ ui.inflight = {}
     /\ ui.failed = 0)
        => ui.trades = list_trades(ui.statusFilter)


----------------------------------------------------------------------------
(* The display formatters (utils/formatters.ts), the null-safe wrappers of *)
(* the trade detail page and the R-multiple cell of the Entries table.     *)
(* A JavaScript value is null, undefined, a number (NaN among them) or a   *)
(* string; text is a sequence of characters.                               *)

JsValue(type, nan, q, chars) == [type |-> type, nan |-> nan, q |-> q, chars |-> chars]

JsNull == JsValue("null", FALSE, Num(0), << >>)

JsUndefined == JsValue("undefined", FALSE, Num(0), << >>)

NaN == JsValue("number", TRUE, Num(0), << >>)

JsNumber(q) == JsValue("number", FALSE, q, << >>)

JsString(chars) == JsValue("string", FALSE, Num(0), chars)

\* The em dash of the wrappers and the table cell.
EmDash == "U+2014"

DecimalDigits == <<"0", "1", "2", "3", "4", "5", "6", "7", "8", "9">>

IsDigit(c) == \E k \in 1 .. 10 : DecimalDigits[k] = c

DigitValue(c) == (CHOOSE k \in 1 .. 10 : DecimalDigits[k] = c) - 1

RECURSIVE Pow10(_)
Pow10(d) == IF d = 0 THEN 1 ELSE 10 * Pow10(d - 1)

\* The index after the run of digits that starts at index i.
RECURSIVE DigitsEnd(_, _)
DigitsEnd(s, i) ==
    IF i <= Len(s) /\ IsDigit(s[i]) THEN DigitsEnd(s, i + 1) ELSE i

\* The number written by the digits s[i], ..., s[j - 1].
RECURSIVE DigitsValue(_, _, _)
DigitsValue(s, i, j) ==
    IF j <= i THEN 0 ELSE 10 * DigitsValue(s, i, j - 1) + DigitValue(s[j - 1])

RECURSIVE SkipSpaces(_, _)
SkipSpaces(s, i) ==
    IF i <= Len(s) /\ s[i] = " " THEN SkipSpaces(s, i + 1) ELSE i

\* parseFloat: leading blanks, a sign, digits, a point, digits; whatever
\* follows is ignored; NaN when no digit was read.
parseFloat(s) ==
    LET b == SkipSpaces(s, 1)
        signed == b <= Len(s) /\ s[b] \in {"-", "+"}
        sign == IF signed /\ s[b] = "-" THEN -1 ELSE 1
        i == IF signed THEN b + 1 ELSE b
        a == DigitsEnd(s, i)
        point == a <= Len(s) /\ s[a] = "."
        e == IF point THEN DigitsEnd(s, a + 1) ELSE a
        fraction == IF point THEN e - (a + 1) ELSE 0
    IN  IF a = i /\ fraction = 0
        THEN NaN
        ELSE JsNumber(Norm(sign * (DigitsValue(s, i, a) * Pow10(fraction)
                                     + (IF point THEN DigitsValue(s, a + 1, e) ELSE 0)),
                           Pow10(fraction)))

\* typeof value === 'number' ? value : parseFloat(String(value))
ToNum(value) ==
    IF value.type = "number" THEN value ELSE parseFloat(value.chars)

isNaN(num) == num.nan

\* The decimal digits of a natural number.
RECURSIVE Digits(_)
Digits(k) ==
    IF k < 10 THEN <<DecimalDigits[k + 1]>>
    ELSE Digits(k \div 10) \o <<DecimalDigits[(k % 10) + 1]>>

\* The last d digits of k, with leading zeros.
RECURSIVE Padded(_, _)
Padded(k, d) ==
    IF d = 0 THEN << >> ELSE Padded(k \div 10, d - 1) \o <<DecimalDigits[(k % 10) + 1]>>

\* |q| in units of 10^-d, the nearer unit, a tie going away from zero.
Scaled(q, d) ==
    (2 * Abs(q[1]) * Pow10(d) + q[2]) \div (2 * q[2])

\* Number.prototype.toFixed
toFixed(q, d) ==
    LET k == Scaled(q, d)
    IN  (IF q[1] < 0 THEN <<"-">> ELSE << >>)
        \o Digits(k \div Pow10(d))
        \o (IF d = 0 THEN << >> ELSE <<".">> \o Padded(k % Pow10(d), d))

\* Digits in groups of three, separated by commas.
RECURSIVE Grouped(_)
Grouped(k) ==
    IF k < 1000 THEN Digits(k)
    ELSE Grouped(k \div 1000) \o <<",">> \o Padded(k % 1000, 3)

\* Intl.NumberFormat('en-US', {style: 'currency', currency: 'USD', 2 digits})
IntlCurrency(q) ==
    LET k == Scaled(q, 2)
    IN  (IF q[1] < 0 THEN <<"-">> ELSE << >>)
        \o <<"$">> \o Grouped(k \div 100) \o <<".">> \o Padded(k % 100, 2)

IsNullish(value) == value.type \in {"null", "undefined"}

\* Mutant: an unknown amount is taken as 0.
formatCurrency_zero_default(value) ==
    LET num == IF IsNullish(value) THEN JsNumber(Num(0)) ELSE ToNum(value)
    IN  IntlCurrency(IF isNaN(num) THEN Num(0) ELSE num.q)

formatCurrency(value) ==
    IF IsNullish(value) THEN <<"-">>
    ELSE LET num == ToNum(value)
         IN  IF isNaN(num) THEN <<"-">> ELSE IntlCurrency(num.q)

formatPercent(value, decimals) ==
    IF IsNullish(value) THEN <<"-">>
    ELSE LET num == ToNum(value)
         IN  IF isNaN(num) THEN <<"-">> ELSE toFixed(num.q, decimals) \o <<"%">>

formatNumber(value, decimals) ==
    IF IsNullish(value) THEN <<"-">>
    ELSE LET num == ToNum(value)
         IN  IF isNaN(num) THEN <<"-">> ELSE toFixed(num.q, decimals)

formatRMultiple(value) ==
    IF IsNullish(value) THEN <<"-">>
    ELSE LET num == ToNum(value)
         IN  IF isNaN(num) THEN <<"-">>
             ELSE (IF num.q[1] > 0 THEN <<"+">> ELSE << >>)
                  \o toFixed(num.q, 2) \o <<"R">>

\* val != null ? formatNumber(val, decimals) : EmDash, and its two siblings.
fmt(val, decimals) ==
    IF ~IsNullish(val) THEN formatNumber(val, decimals) ELSE <<EmDash>>

fmtCur(val) ==
    IF ~IsNullish(val) THEN formatCurrency(val) ELSE <<EmDash>>

fmtPct(val, decimals) ==
    IF ~IsNullish(val) THEN formatPercent(val, decimals) ELSE <<EmDash>>

\* JavaScript truthiness.
JsTruthy(value) ==
    CASE value.type = "number" -> ~value.nan /\ value.q[1] # 0
      [] value.type = "string" -> Len(value.chars) > 0
      [] OTHER -> FALSE

\* TradeRow: {trade.r_multiple ? formatNumber(trade.r_multiple, 2) + 'R' : EmDash}
TradeRow_r_multiple(r_multiple) ==
    IF JsTruthy(r_multiple) THEN formatNumber(r_multiple, 2) \o <<"R">>
    ELSE <<EmDash>>

Formatters ==
    {"formatCurrency", "formatPercent", "formatNumber", "formatRMultiple",
     "fmt", "fmtCur", "fmtPct", "TradeRow.r_multiple"}

\* Values a field of an API response can hold when it reaches a formatter.
FieldValues ==
    {JsNull, JsUndefined, NaN}
    \cup {JsNumber(q) : q \in {Num(0), <<3, 2>>, <<-9, 4>>, <<2469, 2>>, <<-1, 8>>}}
    \cup {JsString(s) : s \in {<<"1", "1", "0", ".", "0", "0">>, <<"0", ".", "0", "0">>,
                               <<"-", ".", "5">>, <<" ", "7", "x">>,
                               <<"a", "b", "c">>, << >>}}

FmtDecimals == {0, 1, 2}

Rendering(formatter, value, decimals) ==
    [page |-> "render", formatter |-> formatter, value |-> value,
     decimals |-> decimals, rendered |-> FALSE, out |-> << >>]

InitFmt ==
    /\ trades = << >>
    /\ transactions = {}
    /\ nextId = 1
    /\ today = 0
    /\ response = Reply("none", 0)
    /\ calc = IdleCalc
    /\ sessions = NoSessions
    /\ ui \in {Rendering(f, v, d) : f \in Formatters, v \in FieldValues, d \in FmtDecimals}

\* The component renders: the formatter is applied to the value.
Render ==
    /\ ui.page = "render"
    /\ ~ui.rendered
    /\ LET v == ui.value
           d == ui.decimals
           out == CASE ui.formatter = "formatCurrency" -> formatCurrency(v)
                    [] ui.formatter = "formatPercent" -> formatPercent(v, d)
                    [] ui.formatter = "formatNumber" -> formatNumber(v, d)
                    [] ui.formatter = "formatRMultiple" -> formatRMultiple(v)
                    [] ui.formatter = "fmt" -> fmt(v, d)
                    [] ui.formatter = "fmtCur" -> fmtCur(v)
                    [] ui.formatter = "fmtPct" -> fmtPct(v, d)
                    [] ui.formatter = "TradeRow.r_multiple" -> TradeRow_r_multiple(v)
       IN  ui' = [ui EXCEPT !.rendered = TRUE, !.out = out]
    /\ UNCHANGED <<trades, transactions, nextId, today, response, calc, sessions>>

NextFmt == Render

SpecFmt == InitFmt /\ [][NextFmt]_vars

\* An unknown value: null, undefined or NaN.
IsUnknownValue(value) == IsNullish(value) \/ (value.type = "number" /\ value.nan)

Placeholders == {<<"-">>, <<EmDash>>}

\* C24: every formatter renders an unknown value (null, undefined, NaN) as
\* a placeholder for "unavailable": a lone dash, with no digit in it, and no
\* formatter fails.  Known values are rendered as they are written: 1234.5 as
\* $1,234.50, -2.25 as -2.25%, 1.5 as +1.50R, the API's "110.00" as 110.0.
C24_UnknownRendersAsPlaceholder ==
    /\ (ui.page = "render" /\ ui.rendered /\ IsUnknownValue(ui.value))
           => ui.out \in Placeholders
    /\ formatCurrency(JsNumber(<<2469, 2>>))
           = <<"$", "1", ",", "2", "3", "4", ".", "5", "0">>
    /\ formatPercent(JsNumber(<<-9, 4>>), 2) = <<"-", "2", ".", "2", "5", "%">>
    /\ formatRMultiple(JsNumber(<<3, 2>>)) = <<"+", "1", ".", "5", "0", "R">>
    /\ formatNumber(JsString(<<"1", "1", "0", ".", "0", "0">>), 1)
           = <<"1", "1", "0", ".", "0">>
    /\ formatCurrency(JsNumber(Num(0))) = <<"$", "0", ".", "0", "0">>

C24_Witness ==
    /\ ui.page = "render"
    /\ ui.rendered
    /\ ui.formatter = "formatCurrency"
    /\ ui.value = NaN
    /\ ui.out = <<"-">>

====
